---- MODULE Spec2Model ----
(***************************************************************************)
(* bookScraper: ISBN validation (bookScraper.check_isbn), the Library      *)
(* Genesis client (libGen.Library, libGen.Book) and the command line       *)
(* driver (bookScraper.main, get_books, download_books).                   *)
(*                                                                         *)
(* Python strings are modelled as sequences of one-character strings.      *)
(***************************************************************************)
EXTENDS Integers, Sequences, FiniteSets, TLC

\* ---------------------------------------------------------------- bounds
\* longest string enumerated exhaustively as an input of check_isbn
MaxShort == 2
\* number of single-character replacements applied to a sample ISBN
MaxEdits == 2

VARIABLES
    isbn,       \* check_isbn: the argument, after str(isbn)
    edits,      \* check_isbn: replacements applied to the sample so far
    cret,       \* check_isbn: "none" before the call, then the outcome
    op,         \* Library client: the call being exercised
    reqs,       \* every HTTP request issued so far, in order
    sArgs,      \* Library.search: the arguments of the call
    sOut,       \* Library.search: what the call raised or returned
    bIn,        \* Book: the mapping passed as **fields
    bOut,       \* Book: what construction raised, and the instance __dict__
    gen,        \* Library.lookup: the generator object
    yielded,    \* Library.lookup: the Books the generator has yielded
    gOut,       \* Library.lookup: how the last next() ended
    argKind,    \* main: args.isbn is "digits", a "file" or "invalid"
    tokens,     \* main: args.isbn itself, or the tokens found in the file
    isbns,      \* main: the ISBNs to process
    idx,        \* main: position in isbns of the one being processed
    pc,         \* main: the statement reached
    exc,        \* main: the exception that escaped main, "none" if none
    md5,        \* download_books: its md5 argument
    pageStatus, \* download_books: status of the answer to requests.get(url)
    fname,      \* download_books: filename
    fs,         \* the working directory: file name -> content
    logs,       \* every logging call so far, in order
    dls         \* every call of download_books so far, in order

isbnVars == <<isbn, edits, cret>>
callVars == <<op, sArgs, sOut, bIn, bOut, yielded, gOut>>
libVars == <<callVars, gen, reqs>>
mainVars ==
    <<argKind, tokens, isbns, idx, pc, exc, md5, pageStatus, fname, fs, logs,
      dls>>
vars == <<isbnVars, libVars, mainVars>>

\* ------------------------------------------------------------ characters
DigitChars == <<"0", "1", "2", "3", "4", "5", "6", "7", "8", "9">>

IsDigit(c) == \E i \in 1..10 : DigitChars[i] = c

\* int(char) of a single decimal digit
DigitVal(c) == (CHOOSE i \in 1..10 : DigitChars[i] = c) - 1

\* the characters tried as replacements and in the short strings
Chars == {"0", "1", "5", "9", "+", " ", "_", "a"}

AllDigits(s) == \A i \in 1..Len(s) : IsDigit(s[i])

\* ------------------------------------------------- int(isbn), line 22
\* str.strip() of the blanks int() ignores around the literal
RECURSIVE LStrip(_)
LStrip(s) == IF s # <<>> /\ Head(s) = " " THEN LStrip(Tail(s)) ELSE s

RECURSIVE RStrip(_)
RStrip(s) ==
    IF s # <<>> /\ s[Len(s)] = " " THEN RStrip(SubSeq(s, 1, Len(s) - 1)) ELSE s

\* int(str) accepts: blanks, an optional sign, then digits in which single
\* underscores may separate digits
IntLiteralOk(s) ==
    LET b == RStrip(LStrip(s))
        u == IF b # <<>> /\ Head(b) \in {"+", "-"} THEN Tail(b) ELSE b
    IN  /\ u # <<>>
        /\ IsDigit(u[1])
        /\ IsDigit(u[Len(u)])
        /\ \A i \in 1..Len(u) : IsDigit(u[i]) \/ u[i] = "_"
        /\ \A i \in 1..(Len(u) - 1) : ~(u[i] = "_" /\ u[i + 1] = "_")

\* --------------------------------------------- the two checksum loops
\* lines 29-33: for i in range(10): t += isbn[i]; s += t
RECURSIVE Isbn10Loop(_, _, _, _)
Isbn10Loop(d, i, t, s) ==
    IF i > 10 THEN s
    ELSE Isbn10Loop(d, i + 1, t + DigitVal(d[i]), s + t + DigitVal(d[i]))

\* weight of the digit at 0-based position i, lines 38-41
Isbn13WeightSwapped(i) == IF i % 2 = 0 THEN 3 ELSE 1

Isbn13Weight(i) == IF i % 2 = 0 THEN 1 ELSE 3

\* lines 36-41: for i in range(13): s += isbn[i] * weight
RECURSIVE Isbn13Loop(_, _, _)
Isbn13Loop(d, i, s) ==
    IF i > 13 THEN s
    ELSE Isbn13Loop(d, i + 1, s + DigitVal(d[i]) * Isbn13Weight(i - 1))

\* check_isbn: "True" / "False" for the value returned, "ValueError" when
\* the list comprehension of line 26 raises (it is outside the try block)
check_isbn(s) ==
    IF ~IntLiteralOk(s) THEN "False"
    ELSE IF ~AllDigits(s) THEN "ValueError"
    ELSE IF Len(s) = 10 THEN
        (IF Isbn10Loop(s, 1, 0, 0) % 11 = 0 THEN "True" ELSE "False")
    ELSE IF Len(s) = 13 THEN
        (IF Isbn13Loop(s, 1, 0) % 10 = 0 THEN "True" ELSE "False")
    ELSE "False"

\* =====================================================================
\* libGen.py
\* =====================================================================
SEARCH_MODES == {"title", "author", "isbn"}

SEARCH_RESULTS_PER_PAGE == {25, 50, 100}

DEFAULT_BOOK_FIELDS ==
    <<"title", "author", "year", "edition", "pages", "identifier",
      "extension", "filesize", "md5", "id">>

ALL_BOOK_FIELDS ==
    {"aich", "asin", "author", "bookmarked", "btih", "city", "cleaned",
     "color", "commentary", "coverurl", "crc32", "ddc", "descr", "doi", "dpi",
     "edition", "extension", "filesize", "generic", "googlebookid", "id",
     "identifierwodash", "issn", "language", "lbc", "lcc", "library", "local",
     "locator", "md5", "openlibraryid", "orientation", "pages", "paginated",
     "periodical", "publisher", "scanned", "searchable", "series", "sha1",
     "sha256", "tags", "timeadded", "timelastmodified", "title", "toc",
     "topic", "torrent", "tth", "udc", "visible", "volumeinfo", "year"}

\* a mapping with no key: an empty __dict__, an absent JSON object
NoMapping == [k \in {} |-> ""]

\* the mappings with keys among K whose values are drawn from V[k]
Mappings(K, V) ==
    UNION {{f \in [S -> UNION {V[k] : k \in K}] : \A k \in S : f[k] \in V[k]} :
           S \in SUBSET K}

\* ------------------------------------------------------------ Book
MANDATORY_FIELDS_IdOnly == <<"id">>

MANDATORY_FIELDS == <<"id", "md5">>

\* lines 154-156: the recognised items of **fields
BookDict(fields) ==
    [k \in (DOMAIN fields) \cap ALL_BOOK_FIELDS |-> fields[k]]

\* lines 157-161: the first mandatory field that is missing, 0 for none
FirstMissing(d) ==
    LET miss == {i \in 1..Len(MANDATORY_FIELDS) :
                    MANDATORY_FIELDS[i] \notin DOMAIN d}
    IN  IF miss = {} THEN 0 ELSE CHOOSE i \in miss : \A j \in miss : i <= j

\* Book.__init__(**fields)
BookInit(fields) ==
    LET d == BookDict(fields)
        m == FirstMissing(d)
    IN  IF m # 0
        THEN [exc |-> "BookException", missing |-> MANDATORY_FIELDS[m],
              book |-> NoMapping]
        ELSE [exc |-> "none", missing |-> "", book |-> d]

\* ------------------------------------------------------------ __req
Statuses == {200, 404, 500}

\* r.raise_for_status(), line 292: HTTPError for 4xx and 5xx
RaisesForStatus(status) == status >= 400 /\ status < 600

\* ------------------------------------------------------------ search
\* lines 211-229 without the results-per-page check
SearchArgsErrorNoPerPage(mode, page, per_page) ==
    IF mode \notin SEARCH_MODES THEN "LibraryException"
    ELSE IF page <= 0 THEN "LibraryException"
    ELSE "none"

\* lines 211-229: the three checks, in order
SearchArgsError(mode, page, per_page) ==
    IF mode \notin SEARCH_MODES THEN "LibraryException"
    ELSE IF page <= 0 THEN "LibraryException"
    ELSE IF per_page \notin SEARCH_RESULTS_PER_PAGE THEN "LibraryException"
    ELSE "none"

\* Library.search: up is the answer of the search endpoint, read only when
\* the request is issued; up.ids are the ids re.findall extracts, line 238
search(query, mode, page, per_page, up) ==
    IF SearchArgsError(mode, page, per_page) # "none"
    THEN [exc |-> SearchArgsError(mode, page, per_page), ids |-> <<>>,
          sent |-> <<>>]
    ELSE LET rq == [ep |-> "search", arg |-> query]
         IN  IF RaisesForStatus(up.status)
             THEN [exc |-> "HTTPError", ids |-> <<>>, sent |-> <<rq>>]
             ELSE [exc |-> "none", ids |-> up.ids, sent |-> <<rq>>]

\* ------------------------------------------------------------ lookup
\* lines 268-271: the fields sent to the lookup endpoint
LookupFields(fields) ==
    LET f == IF \E i \in 1..Len(fields) : fields[i] = "id"
             THEN fields ELSE Append(fields, "id")
    IN  IF \E i \in 1..Len(f) : f[i] = "*" THEN <<"*">> ELSE f

\* calling lookup() runs none of its body: it returns a generator object
NewGen(ids, fields) ==
    [ids |-> ids, fields |-> fields, state |-> "created", pos |-> 0,
     resp |-> <<>>]

NoGen == NewGen(<<>>, <<>>)

GenEnd(g, out, sent) ==
    [g |-> [g EXCEPT !.state = "finished"], out |-> out, book |-> NoMapping,
     sent |-> sent]

\* lines 286-288 with the assert of line 287 compiled away
GenLoopNoAssert(g, sent) ==
    LET p == g.pos + 1
    IN  IF p > Len(g.resp) \/ p > Len(g.ids) THEN GenEnd(g, "stop", sent)
        ELSE IF "id" \notin DOMAIN g.resp[p] THEN GenEnd(g, "KeyError", sent)
        ELSE IF BookInit(g.resp[p]).exc # "none"
            THEN GenEnd(g, BookInit(g.resp[p]).exc, sent)
        ELSE [g |-> [g EXCEPT !.state = "running", !.pos = p],
              out |-> "yield", book |-> BookInit(g.resp[p]).book,
              sent |-> sent]

\* lines 286-288: one turn of the for loop over zip(resp, ids)
GenLoop(g, sent) ==
    LET p == g.pos + 1
    IN  IF p > Len(g.resp) \/ p > Len(g.ids) THEN GenEnd(g, "stop", sent)
        ELSE IF "id" \notin DOMAIN g.resp[p] THEN GenEnd(g, "KeyError", sent)
        ELSE IF g.resp[p]["id"] # g.ids[p]
            THEN GenEnd(g, "AssertionError", sent)
        ELSE IF BookInit(g.resp[p]).exc # "none"
            THEN GenEnd(g, BookInit(g.resp[p]).exc, sent)
        ELSE [g |-> [g EXCEPT !.state = "running", !.pos = p],
              out |-> "yield", book |-> BookInit(g.resp[p]).book,
              sent |-> sent]

\* next(generator): the first call runs lines 264-285 (the request, the
\* empty-response check), every call then runs the loop to its next yield
GenNext(g, up) ==
    IF g.state = "finished" THEN GenEnd(g, "stop", <<>>)
    ELSE IF g.state = "running" THEN GenLoop(g, <<>>)
    ELSE LET rq == [ep |-> "lookup", arg |-> g.ids]
         IN  IF RaisesForStatus(up.status) THEN GenEnd(g, "HTTPError", <<rq>>)
             ELSE IF up.resp = <<>> THEN GenEnd(g, "HTTPError", <<rq>>)
             ELSE GenLoop([g EXCEPT !.resp = up.resp], <<rq>>)

\* ----------------------------------------------- the client's callers
\* longest list of ids a search returns or a caller looks up
MaxIds == 2
\* longest JSON array the lookup endpoint answers with
MaxResp == 2

IdVals == {"1", "2"}

SeqsUpTo(S, n) == UNION {[1..k -> S] : k \in 0..n}

\* the JSON objects the lookup endpoint may answer with
UpRecords ==
    Mappings({"id", "md5", "identifier"},
             [k \in {"id", "md5", "identifier"} |->
                 IF k = "id" THEN IdVals
                 ELSE IF k = "md5" THEN {"a"} ELSE {"z"}])

LookupAnswers ==
    [status : Statuses, resp : SeqsUpTo(UpRecords, MaxResp)]

SearchAnswers == [status : Statuses, ids : SeqsUpTo(IdVals, MaxIds)]

NoAnswer == [status |-> 200, resp |-> <<>>, ids |-> <<>>]

\* the mappings a caller constructs a Book from
BookInputs ==
    Mappings({"id", "md5", "title", "identifier"},
             [k \in {"id", "md5", "title", "identifier"} |->
                 IF k = "id" THEN {"1"}
                 ELSE IF k = "md5" THEN {"a"}
                 ELSE IF k = "title" THEN {"X", "Y"} ELSE {"z"}])

NoSearch == [mode |-> "", page |-> 0, per_page |-> 0]
NoOutcome == [exc |-> "none", ids |-> <<>>]
NoBook == [exc |-> "none", missing |-> "", book |-> NoMapping]

LibIdle ==
    /\ op = "idle"
    /\ reqs = <<>>
    /\ sArgs = NoSearch
    /\ sOut = NoOutcome
    /\ bIn = NoMapping
    /\ bOut = NoBook
    /\ gen = NoGen
    /\ yielded = <<>>
    /\ gOut = "none"

\* main has not been entered
MainIdle ==
    /\ argKind = "none"
    /\ tokens = <<>>
    /\ isbns = <<>>
    /\ idx = 0
    /\ pc = "start"
    /\ exc = "none"
    /\ md5 = ""
    /\ pageStatus = 0
    /\ fname = ""
    /\ fs = NoMapping
    /\ logs = <<>>
    /\ dls = <<>>

\* check_isbn has not been called
IsbnIdle ==
    /\ isbn = <<>>
    /\ edits = 0
    /\ cret = "none"

InitLib ==
    /\ IsbnIdle
    /\ LibIdle
    /\ MainIdle

SearchCall(mode, page, per_page) ==
    /\ op = "idle"
    /\ \E up \in (IF SearchArgsError(mode, page, per_page) = "none"
                  THEN SearchAnswers ELSE {NoAnswer}) :
          LET r == search(<<"q">>, mode, page, per_page, up)
          IN  /\ sOut' = [exc |-> r.exc, ids |-> r.ids]
              /\ reqs' = reqs \o r.sent
    /\ op' = "search"
    /\ sArgs' = [mode |-> mode, page |-> page, per_page |-> per_page]
    /\ UNCHANGED <<bIn, bOut, gen, yielded, gOut>>
    /\ UNCHANGED <<isbnVars, mainVars>>

BookCall(fields) ==
    /\ op = "idle"
    /\ op' = "book"
    /\ bIn' = fields
    /\ bOut' = BookInit(fields)
    /\ UNCHANGED <<reqs, sArgs, sOut, gen, yielded, gOut>>
    /\ UNCHANGED <<isbnVars, mainVars>>

LookupCall(ids, fields) ==
    /\ op = "idle"
    /\ op' = "lookup"
    /\ gen' = NewGen(ids, LookupFields(fields))
    /\ UNCHANGED <<reqs, sArgs, sOut, bIn, bOut, yielded, gOut>>
    /\ UNCHANGED <<isbnVars, mainVars>>

LookupNext ==
    /\ op = "lookup"
    /\ gOut \in {"none", "yield"}
    /\ \E up \in (IF gen.state = "created" THEN LookupAnswers ELSE {NoAnswer}) :
          LET r == GenNext(gen, up)
          IN  /\ gen' = r.g
              /\ gOut' = r.out
              /\ yielded' = IF r.out = "yield" THEN Append(yielded, r.book)
                            ELSE yielded
              /\ reqs' = reqs \o r.sent
    /\ UNCHANGED <<op, sArgs, sOut, bIn, bOut>>
    /\ UNCHANGED <<isbnVars, mainVars>>

NextLib ==
    \/ \E mode \in SEARCH_MODES \cup {"publisher"}, page \in -1..2,
          per_page \in SEARCH_RESULTS_PER_PAGE \cup {10} :
          SearchCall(mode, page, per_page)
    \/ \E fields \in BookInputs : BookCall(fields)
    \/ \E ids \in SeqsUpTo(IdVals, MaxIds),
          fields \in {DEFAULT_BOOK_FIELDS, <<"title">>, <<"title", "*">>} :
          LookupCall(ids, fields)
    \/ LookupNext

SpecLib == InitLib /\ [][NextLib]_vars

\* =====================================================================
\* bookScraper.py: callers of check_isbn
\* =====================================================================
\* ------------------------------------------------ inputs of check_isbn
\* the strings of test(), lines 137-138
Good13 == <<"9", "7", "8", "1", "5", "6", "6", "1", "9", "9", "0", "9", "4">>
Good10 == <<"1", "5", "6", "6", "1", "9", "9", "0", "9", "3">>
Bad10 == <<"4", "9", "1", "5", "8", "3", "4", "5", "9", "2">>
Bad17 ==
    <<"2", "9", "3", "2", "3", "4", "7", "8", "5", "2", "3", "4", "5", "2",
      "9", "8", "3">>
BadText == <<"h", "e", "l", "l", "o", " ", "w", "o", "r", "l", "d", "!">>

TestInputs ==
    {Good13, Good10, Bad10, Bad17, BadText, <<"6", "9", "3", "7">>,
     <<"5", "1">>, <<"5", "8", "2", "8", "6", "3">>}

ShortStrings == UNION {[1..n -> Chars] : n \in 0..MaxShort}

InitIsbn ==
    /\ isbn \in TestInputs \cup ShortStrings
    /\ edits = 0
    /\ cret = "none"
    /\ LibIdle
    /\ MainIdle

\* the caller passes another string: one character of the sample replaced
EditChar(i, c) ==
    /\ cret = "none"
    /\ edits < MaxEdits
    /\ i \in 1..Len(isbn)
    /\ isbn[i] # c
    /\ isbn' = [isbn EXCEPT ![i] = c]
    /\ edits' = edits + 1
    /\ cret' = cret
    /\ UNCHANGED <<libVars, mainVars>>

CallCheckIsbn ==
    /\ cret = "none"
    /\ cret' = check_isbn(isbn)
    /\ UNCHANGED <<isbn, edits>>
    /\ UNCHANGED <<libVars, mainVars>>

NextIsbn ==
    \/ \E i \in 1..17, c \in Chars : EditChar(i, c)
    \/ CallCheckIsbn

SpecIsbn == InitIsbn /\ [][NextIsbn]_vars

\* =====================================================================
\* bookScraper.py: get_books, download_books, main
\* =====================================================================
\* most tokens in a list file
MaxTokens == 2

\* what re.findall(r"[\w']+", ...) may find in a list file, line 117
FileTokens == {Good13, Good10, <<"5", "1">>, <<"1", "_", "0">>}

\* arguments for which args.isbn.isdigit() holds, line 103
DigitArgs == {Good13, <<"5", "1">>}

\* the JSON objects the lookup endpoint answers main's lookups with
MainRecords ==
    Mappings({"id", "md5"},
             [k \in {"id", "md5"} |-> IF k = "id" THEN IdVals ELSE {"a"}])

MainLookupAnswers ==
    [status : Statuses, resp : SeqsUpTo(MainRecords, MaxResp)]

\* href of the anchor whose text is GET on the redirect page, "" if the
\* page has no such anchor (soup.find returns None)
Hrefs == {"", "/get/abc.epub", "/get/a%20b.epub"}

\* line 71: unquote(link.split("/")[-1])
Filename(href) ==
    IF href = "/get/abc.epub" THEN "abc.epub"
    ELSE IF href = "/get/a%20b.epub" THEN "a b.epub"
    ELSE ""

\* answers to the streamed GET of the file: the Content-Length header
\* (0 when absent) and the number of bytes iter_content delivers
FileAnswers == [status : Statuses, clen : {0, 2}, body : {1, 2}]

\* a file that was in the working directory before main started
OldFile == [by |-> 0, size |-> 1]

\* str(e.response): of the Response raise_for_status attached, or of None
\* for the HTTPError(400) of libGen.py line 284
ResponseStr(status) ==
    IF status = 404 THEN "<Response [404]>"
    ELSE IF status = 500 THEN "<Response [500]>"
    ELSE "None"

\* lines 107-111 and 126-130: the except clause
HTTPErrorLog(respStr, i) ==
    IF respStr = "<Response [500]>"
    THEN [level |-> "error", msg |-> "Book not found for ISBN", item |-> i]
    ELSE [level |-> "error", msg |-> respStr, item |-> i]

\* book, *_ = generator: every Book is taken before book is bound
RECURSIVE Drain(_, _, _, _)
Drain(g, up, books, sent) ==
    LET r == GenNext(g, up)
    IN  IF r.out = "yield"
        THEN Drain(r.g, up, Append(books, r.book), sent \o r.sent)
        ELSE [g |-> r.g, books |-> books, out |-> r.out,
              sent |-> sent \o r.sent]

InitMain ==
    /\ IsbnIdle
    /\ op = "idle" /\ sArgs = NoSearch /\ sOut = NoOutcome /\ bIn = NoMapping
    /\ bOut = NoBook /\ yielded = <<>> /\ gOut = "none"
    /\ gen = NoGen
    /\ reqs = <<>>
    /\ \/ argKind = "digits" /\ tokens \in {<<t>> : t \in DigitArgs}
       \/ argKind = "file" /\ tokens \in SeqsUpTo(FileTokens, MaxTokens)
       \/ argKind = "invalid" /\ tokens = <<BadText>>
    /\ isbns = <<>>
    /\ idx = 0
    /\ pc = "start"
    /\ exc = "none"
    /\ md5 = ""
    /\ pageStatus = 0
    /\ fname = ""
    /\ fs \in {NoMapping, [n \in {"abc.epub"} |-> OldFile]}
    /\ logs = <<>>
    /\ dls = <<>>

\* the try block was left (normally or through the except clause) with the
\* generator in state g: the for loop goes on with the next ISBN, or main
\* returns
ItemDone(g) ==
    IF argKind = "file" /\ idx < Len(isbns)
    THEN /\ idx' = idx + 1
         /\ pc' = "search"
         /\ gen' = NoGen
         /\ md5' = ""
         /\ pageStatus' = 0
         /\ fname' = ""
    ELSE /\ pc' = "done"
         /\ gen' = g
         /\ UNCHANGED <<idx, md5, pageStatus, fname>>

\* an exception no except clause matches leaves main
Escapes(e) ==
    /\ pc' = "crashed"
    /\ exc' = e

\* lines 103, 113-118, 132-133
MainStart ==
    /\ pc = "start"
    /\ argKind # "none"
    /\ IF argKind = "digits" THEN
           /\ isbns' = tokens
           /\ idx' = 1
           /\ pc' = "search"
           /\ UNCHANGED <<exc, logs>>
       ELSE IF argKind = "invalid" THEN
           /\ logs' = Append(logs, [level |-> "critical",
                                    msg |-> "Invalid input", item |-> 0])
           /\ pc' = "done"
           /\ UNCHANGED <<isbns, idx, exc>>
       ELSE IF \E i \in 1..Len(tokens) : check_isbn(tokens[i]) = "ValueError"
       THEN
           /\ Escapes("ValueError")
           /\ UNCHANGED <<isbns, idx, logs>>
       ELSE
           LET kept == SelectSeq(tokens, LAMBDA t : check_isbn(t) = "True")
           IN  /\ isbns' = kept
               /\ idx' = IF kept = <<>> THEN 0 ELSE 1
               /\ pc' = IF kept = <<>> THEN "done" ELSE "search"
               /\ UNCHANGED <<exc, logs>>
    /\ UNCHANGED <<argKind, tokens, md5, pageStatus, fname, fs, dls>>
    /\ UNCHANGED <<isbnVars, libVars>>

\* get_books(isbn=...), lines 47-63: the search, then lookup(ids), which
\* only creates the generator
GetBooks ==
    /\ pc = "search"
    /\ \E up \in SearchAnswers :
          LET r == search(isbns[idx], "isbn", 1, 25, up)
          IN  /\ reqs' = reqs \o r.sent
              /\ IF r.exc = "none" THEN
                     /\ gen' = NewGen(r.ids, LookupFields(DEFAULT_BOOK_FIELDS))
                     /\ pc' = "unpack"
                     /\ UNCHANGED <<idx, exc, logs, md5, pageStatus, fname>>
                 ELSE IF r.exc = "HTTPError" THEN
                     /\ logs' = Append(logs,
                                   HTTPErrorLog(ResponseStr(up.status), idx))
                     /\ ItemDone(gen)
                     /\ UNCHANGED exc
                 ELSE
                     /\ Escapes(r.exc)
                     /\ UNCHANGED <<idx, gen, logs, md5, pageStatus, fname>>
    /\ UNCHANGED <<argKind, tokens, isbns, fs, dls>>
    /\ UNCHANGED <<isbnVars, callVars>>

\* book, *_ = get_books(...), lines 105 and 124, and the call of
\* download_books(book.__dict__['md5']) when a first Book was bound
UnpackBooks ==
    /\ pc = "unpack"
    /\ \E up \in MainLookupAnswers :
          LET r == Drain(gen, up, <<>>, <<>>)
          IN  /\ reqs' = reqs \o r.sent
              /\ IF r.out = "HTTPError" THEN
                     /\ logs' = Append(logs,
                            HTTPErrorLog(
                                IF RaisesForStatus(up.status)
                                THEN ResponseStr(up.status) ELSE "None", idx))
                     /\ ItemDone(r.g)
                     /\ UNCHANGED <<exc, dls>>
                 ELSE IF r.out # "stop" THEN
                     /\ Escapes(r.out)
                     /\ gen' = r.g
                     /\ UNCHANGED <<idx, logs, md5, pageStatus, fname, dls>>
                 ELSE IF r.books = <<>> THEN
                     /\ Escapes("ValueError")
                     /\ gen' = r.g
                     /\ UNCHANGED <<idx, logs, md5, pageStatus, fname, dls>>
                 ELSE
                     /\ gen' = r.g
                     /\ md5' = r.books[1]["md5"]
                     /\ dls' = Append(dls, [item |-> idx,
                                            md5 |-> r.books[1]["md5"]])
                     /\ pc' = "page"
                     /\ UNCHANGED <<idx, exc, logs, pageStatus, fname>>
    /\ UNCHANGED <<argKind, tokens, isbns, fs>>
    /\ UNCHANGED <<isbnVars, callVars>>

\* download_books, lines 67-71: the redirect page is fetched, its status
\* is not looked at, and the GET anchor is read from whatever came back
DownloadPage ==
    /\ pc = "page"
    /\ \E status \in Statuses, href \in Hrefs :
          /\ reqs' = Append(reqs, [ep |-> "page", arg |-> <<md5>>])
          /\ pageStatus' = status
          /\ IF href = "" THEN
                 /\ Escapes("TypeError")
                 /\ UNCHANGED fname
             ELSE
                 /\ fname' = Filename(href)
                 /\ pc' = "file"
                 /\ UNCHANGED exc
    /\ gen' = NoGen
    /\ UNCHANGED <<argKind, tokens, isbns, idx, md5, fs, logs, dls>>
    /\ UNCHANGED <<isbnVars, callVars>>

\* the two logging calls that end download_books, lines 89-95
DownloadLogs(exists, total_size, wrote, i) ==
    (IF exists
     THEN <<[level |-> "error", msg |-> "File already exists", item |-> i]>>
     ELSE <<>>)
    \o
    (IF total_size # 0 /\ wrote # total_size
     THEN <<[level |-> "error", msg |-> "Download error", item |-> i]>>
     ELSE <<[level |-> "info", msg |-> "File downloaded successfully",
             item |-> i]>>)

\* download_books, lines 73-95: the file is requested, then written unless
\* a file of that name exists
DownloadFile ==
    /\ pc = "file"
    /\ \E ans \in FileAnswers :
          LET exists == fname \in DOMAIN fs
              wrote == IF exists THEN 0 ELSE ans.body
          IN  /\ reqs' = Append(reqs, [ep |-> "file", arg |-> <<fname>>])
              /\ fs' = IF exists THEN fs
                       ELSE [n \in (DOMAIN fs) \cup {fname} |->
                                IF n = fname THEN [by |-> idx, size |-> wrote]
                                ELSE fs[n]]
              /\ logs' = logs \o DownloadLogs(exists, ans.clen, wrote, idx)
    /\ ItemDone(gen)
    /\ UNCHANGED <<argKind, tokens, isbns, exc, dls>>
    /\ UNCHANGED <<isbnVars, callVars>>

Next ==
    \/ MainStart
    \/ GetBooks
    \/ UnpackBooks
    \/ DownloadPage
    \/ DownloadFile

Spec == InitMain /\ [][Next]_vars

\* ------------------------------------------------- claims on check_isbn
RECURSIVE SumTo(_, _)
SumTo(f, n) == IF n = 0 THEN 0 ELSE f[n] + SumTo(f, n - 1)

\* ISBN-10: the total of the running sums t_1 .. t_10, t_k = d_1 + .. + d_k
RefSum10(s) ==
    LET d == [i \in 1..10 |-> DigitVal(s[i])]
        t == [k \in 1..10 |-> SumTo(d, k)]
    IN  SumTo(t, 10)

\* ISBN-13: weight 1 at even 0-based positions, weight 3 at odd ones
RefSum13(s) ==
    SumTo([i \in 1..13 |->
              IF (i - 1) % 2 = 0 THEN DigitVal(s[i]) ELSE 3 * DigitVal(s[i])],
          13)

RefValid(s) ==
    \/ Len(s) = 10 /\ RefSum10(s) % 11 = 0
    \/ Len(s) = 13 /\ RefSum13(s) % 10 = 0

\* C1: on a string of decimal digits check_isbn returns true exactly when
\* the length is 10 and the double-accumulation sum is 0 mod 11, or the
\* length is 13 and the 1/3-weighted sum is 0 mod 10; false for every
\* other length.
C1_DigitStringChecksum ==
    (cret # "none" /\ AllDigits(isbn)) =>
        cret = (IF RefValid(isbn) THEN "True" ELSE "False")

\* C1 witness: a valid 13-digit ISBN other than the sample, reached by two
\* replacements, has been accepted.
C1_Witness ==
    /\ cret = "True"
    /\ edits = 2
    /\ Len(isbn) = 13
    /\ isbn # Good13

\* C2: check_isbn is total, it returns a boolean for every string and
\* false for every string that is not made of decimal digits only.
C2_TotalOnStrings ==
    /\ cret \in {"none", "True", "False"}
    /\ (cret # "none" /\ ~AllDigits(isbn)) => cret = "False"

\* ------------------------------------------- claims on the Library client
ValidSearchArgs(a) ==
    /\ a.mode \in {"title", "author", "isbn"}
    /\ a.page > 0
    /\ a.per_page \in {25, 50, 100}

\* C3: a search whose mode, page or per_page is not allowed ends with a
\* LibraryException and has issued no HTTP request; a request is issued
\* only when all three checks pass.
C3_SearchRejectsBeforeRequest ==
    op = "search" =>
        /\ ~ValidSearchArgs(sArgs) =>
               (sOut.exc = "LibraryException" /\ reqs = <<>>)
        /\ reqs # <<>> => ValidSearchArgs(sArgs)
        /\ ValidSearchArgs(sArgs) => Len(reqs) = 1

\* C3 witness: mode isbn, page 1, per_page 10 was rejected with no request.
C3_Witness ==
    /\ op = "search"
    /\ sArgs = [mode |-> "isbn", page |-> 1, per_page |-> 10]
    /\ sOut.exc = "LibraryException"
    /\ reqs = <<>>

\* the recognised items of a response record
Recognised(m) == [k \in (DOMAIN m) \cap ALL_BOOK_FIELDS |-> m[k]]

\* the generator is exhausted and the endpoint answered one record per
\* requested id, with equal ids, in the same order
LookupMatched ==
    /\ op = "lookup"
    /\ gen.state = "finished"
    /\ Len(gen.resp) = Len(gen.ids)
    /\ \A i \in 1..Len(gen.ids) :
          "id" \in DOMAIN gen.resp[i] /\ gen.resp[i]["id"] = gen.ids[i]

YieldedAllInOrder ==
    /\ Len(yielded) = Len(gen.ids)
    /\ \A i \in 1..Len(yielded) :
          /\ yielded[i] = Recognised(gen.resp[i])
          /\ yielded[i]["id"] = gen.ids[i]

C5_BookConstruction ==
    op = "book" =>
        /\ bOut.exc \in {"none", "BookException"}
        /\ bOut.exc = "BookException" <=>
               ("id" \notin DOMAIN bIn \/ "md5" \notin DOMAIN bIn)
        /\ bOut.exc = "none" =>
               /\ DOMAIN bOut.book = (DOMAIN bIn) \cap ALL_BOOK_FIELDS
               /\ \A k \in DOMAIN bOut.book : bOut.book[k] = bIn[k]

\* C5 witness: a Book was built from a mapping with id, md5, a title and
\* the unrecognised key identifier, which the instance does not hold.
C5_Witness ==
    /\ op = "book"
    /\ DOMAIN bIn = {"id", "md5", "title", "identifier"}
    /\ bOut.exc = "none"
    /\ DOMAIN bOut.book = {"id", "md5", "title"}

\* ------------------------------------------------------ claims on main
\* the logging calls made by the step being taken
NewLogs == SubSeq(logs', Len(logs) + 1, Len(logs'))

\* C6: when the file name download_books resolved already exists, nothing
\* is written (the directory is unchanged), a skip is logged and no
\* download error is reported.
C6_SkipOnExists ==
    [][(pc = "file" /\ fname \in DOMAIN fs) =>
          /\ fs' = fs
          /\ \E i \in 1..Len(NewLogs) : NewLogs[i].msg = "File already exists"
          /\ \A i \in 1..Len(NewLogs) : NewLogs[i].msg # "Download error"]_vars

\* C7: in file mode a failure on one ISBN (an HTTP error, a validation
\* error or a field error) does not stop the batch: whenever main has
\* stopped after such failures only, the last ISBN that passed check_isbn
\* has been attempted.
C7_BatchReachesLastToken ==
    (/\ argKind = "file"
     /\ pc \in {"done", "crashed"}
     /\ exc \in {"none", "HTTPError", "LibraryException", "BookException"})
        => idx = Len(isbns)

\* C8: when the redirect page answers 4xx or 5xx, download_books raises an
\* HTTP error (which main's except clause logs for the item): no file is
\* requested, none is created, and nothing else is raised.
C8_PageErrorPropagates ==
    pageStatus >= 400 =>
        /\ pc # "file"
        /\ exc = "none"
        /\ reqs[Len(reqs)].ep = "page"
        /\ logs # <<>>
        /\ logs[Len(logs)] = HTTPErrorLog(ResponseStr(pageStatus), idx)

\* C9: in single-ISBN mode, when the search returned no id, main ends
\* with the failure logged, no download started and no exception escaping,
\* whatever the lookup endpoint answered.
C9_NoBooksFound ==
    (/\ argKind = "digits"
     /\ pc \in {"done", "crashed"}
     /\ gen.state = "finished"
     /\ gen.ids = <<>>)
        => (exc = "none" /\ dls = <<>> /\ logs # <<>>)

\* C10: in single-ISBN mode, when the first record of the lookup answer is
\* valid (it carries the first requested id and an md5), exactly one
\* download is started, with that record's md5, whatever the later records
\* are.
C10_FirstRecordDownloaded ==
    (/\ argKind = "digits"
     /\ gen.state = "finished"
     /\ gen.ids # <<>>
     /\ gen.resp # <<>>
     /\ "id" \in DOMAIN gen.resp[1]
     /\ "md5" \in DOMAIN gen.resp[1]
     /\ gen.resp[1]["id"] = gen.ids[1])
        => dls = <<[item |-> 1, md5 |-> gen.resp[1]["md5"]]>>

====
